---- MODULE Spec2Model ----
(***************************************************************************)
(* A model of scrape.py: ICOPenaltyScraper.run, a single-threaded pipeline *)
(* that fetches the enforcement list page, scrapes every penalty page for  *)
(* its PDF link, downloads and hashes the PDFs and writes index.json and   *)
(* metadata.json.                                                          *)
(*                                                                         *)
(* A URL is the sequence of its path segments.  The web site answers the   *)
(* first GET of a URL nondeterministically and answers it the same way for *)
(* the rest of the run: the run takes seconds and its CachedSession keeps  *)
(* responses for an hour.  list(map(f, xs))                                *)
(* is modelled one application of f at a time (cursor i, accumulator acc); *)
(* the assignment of the finished list is a step of its own.               *)
(* The title of a PDF record is not modelled: nothing checked here reads   *)
(* it and computing it cannot raise.                                       *)
(***************************************************************************)
EXTENDS Integers, Sequences, FiniteSets, TLC

\* ---------------------------------------------------------------- bounds
MaxPages == 2          \* most penalty-page links on the list page
MaxLinks == 2          \* most matching PDF links on one penalty page

\* ------------------------------------------------------------- universe
None == "None"

LIST_URL == <<"action-weve-taken", "enforcement">>

PageUrls ==
    { <<"action-weve-taken", "enforcement", "acme-ltd">>,
      <<"action-weve-taken", "enforcement", "bolt-plc">> }

\* PDF links: two with the basename a.pdf under different ids, two whose ids
\* differ as strings but not as integers, one without an id segment.
PdfUrls ==
    { <<"media", "action-weve-taken", "mpns", "2", "a.pdf">>,
      <<"media", "action-weve-taken", "mpns", "10", "a.pdf">>,
      <<"media", "action-weve-taken", "undertakings", "02", "b.pdf">>,
      <<"media", "action-weve-taken", "enforcement-notices", "c.pdf">> }

DigitStrings == {"2", "10", "02"}

Contents == {"A", "B"}          \* bodies a PDF request can return
Empty == ""                     \* a file just opened with 'wb'

DateStrings == {"21 December 2017", "soon", None}   \* None: no single <dd>

\* The documents the site can serve: what the three XPath queries find in
\* the page, and the raw body.
Doc(list_links, pdf_links, date, content) ==
    [list_links |-> list_links, pdf_links |-> pdf_links,
     date |-> date, content |-> content]

SeqsUpTo(S, n) == UNION { [1..k -> S] : k \in 0..n }

ListDocs == { Doc(l, <<>>, None, Empty) : l \in SeqsUpTo(PageUrls, MaxPages) }

AnyPdfUrl == <<"media", "action-weve-taken", "mpns", "2", "a.pdf">>

PageDocs ==
    { Doc(<<>>, <<>>, None, Empty) }
    \cup { Doc(<<>>, <<u>>, d, Empty) : u \in PdfUrls, d \in DateStrings }
    \cup { Doc(<<>>, [j \in 1..k |-> AnyPdfUrl], "21 December 2017", Empty) :
             k \in 2..MaxLinks }

PdfDocs == { Doc(<<>>, <<>>, None, c) : c \in Contents }

ErrorDoc == Doc(<<>>, <<>>, None, Empty)

Response(status_code, doc) == [status_code |-> status_code, doc |-> doc]

DocsAt(url) ==
    IF url = LIST_URL THEN ListDocs
    ELSE IF url \in PageUrls THEN PageDocs
    ELSE PdfDocs

\* What the site may answer to a GET of url.
ServerResponses(url) ==
    { Response(200, d) : d \in DocsAt(url) }
    \cup { Response(301, d) : d \in IF url \in PdfUrls THEN PdfDocs ELSE {ErrorDoc} }
    \cup { Response(404, ErrorDoc) }

VARIABLES
    pc,             \* the statement of run() that executes next
    err,            \* the exception that ended the run, or None
    pdfs_dir,       \* whether <output_dir>/pdfs exists
    penalty_pages,  \* self.penalty_pages (None before assignment: <<>>)
    penalty_pdfs,   \* self.penalty_pdfs  (None before assignment: <<>>)
    i,              \* position of the running map() in its input list
    acc,            \* the list that list(...) is building
    files,          \* <output_dir>/pdfs: filename -> bytes
    index_json,     \* the 'pdfs' list of index.json
    cache,          \* the responses given in this run: url -> response
    events,         \* every http.get and every file written, in order
    parsed          \* the events whose response lxml.html.fromstring parsed

vars == <<pc, err, pdfs_dir, penalty_pages, penalty_pdfs, i, acc, files,
          index_json, cache, events, parsed>>

\* ------------------------------------------------------ pure functions

\* Mutant: only server errors raise.
raise_for_status_5xx(status_code) == status_code >= 500 /\ status_code < 600

\* requests.Response.raise_for_status raises for 4xx and 5xx.
raise_for_status(status_code) == status_code >= 400 /\ status_code < 600

\* Mutant: the check for status 301 is missing.
_get_as_lxml_no_301(response) ==
    IF raise_for_status(response.status_code) THEN "HTTPError" ELSE None

\* The exception _get_as_lxml raises on a response, or None when it parses it.
_get_as_lxml(response) ==
    IF raise_for_status(response.status_code) THEN "HTTPError"
    ELSE IF response.status_code = 301 THEN "RuntimeError"
    ELSE None

\* Mutant: with several links the first is taken.
_parse_pdf_url_first(a_tags) ==
    IF Len(a_tags) = 0 THEN [raises |-> None, value |-> <<>>]
    ELSE [raises |-> None, value |-> <<a_tags[1]>>]

\* value is <<>> for Python's None and <<url>> for a url.
_parse_pdf_url(a_tags) ==
    IF Len(a_tags) = 0 THEN [raises |-> None, value |-> <<>>]
    ELSE IF Len(a_tags) = 1 THEN [raises |-> None, value |-> <<a_tags[1]>>]
    ELSE [raises |-> "RuntimeError", value |-> <<>>]

\* re.search('\/(?P<id>\d+)\/'): the first all-digit segment that has a
\* slash on both sides, so never the last segment.
_parse_id(pdf_url) ==
    LET hits == { k \in 1..(Len(pdf_url) - 1) : pdf_url[k] \in DigitStrings }
    IN  IF hits = {} THEN None
        ELSE pdf_url[CHOOSE k \in hits : \A m \in hits : k <= m]

\* re.search('\/action-weve-taken\/(?P<type>.+?)\/'): the segment after the
\* first 'action-weve-taken' that is itself followed by a slash.
_parse_type(pdf_url) ==
    LET hits == { k \in 1..(Len(pdf_url) - 2) : pdf_url[k] = "action-weve-taken" }
    IN  IF hits = {} THEN None
        ELSE LET type_slug == pdf_url[(CHOOSE k \in hits : \A m \in hits : k <= m) + 1]
             IN  CASE type_slug = "enforcement-notices" -> "enforcement-notice"
                   [] type_slug = "mpns" -> "monetary-penalty"
                   [] type_slug = "undertakings" -> "undertaking"
                   [] OTHER -> None

\* strptime(date_string, '%d %B %Y').date().isoformat(); no single <dd>
\* gives None, a string of another format raises.
_parse_date(date) ==
    IF date = None THEN [raises |-> None, value |-> None]
    ELSE IF date = "21 December 2017" THEN [raises |-> None, value |-> "2017-12-21"]
    ELSE [raises |-> "ValueError", value |-> None]

basename(url) == url[Len(url)]

\* hashlib.sha256(bytes).hexdigest(), by its first eight hex digits.
sha256(bytes) ==
    CASE bytes = Empty -> "e3b0c442"
      [] bytes = "A" -> "559aead0"
      [] bytes = "B" -> "df7e70e5"

\* int(pdf.id) for the ids of the universe.
int(id) ==
    CASE id = "2" -> 2
      [] id = "10" -> 10
      [] id = "02" -> 2

PDF(id, url, type, date, filename, sha) ==
    [id |-> id, url |-> url, type |-> type, date |-> date,
     filename |-> filename, sha256 |-> sha]

\* The body of parse_pdf_url_from_penalty_page after the GET: the exception
\* it raises (or None) and its return value (<<>> for None, else <<PDF>>).
ScrapePage(response) ==
    LET got == _get_as_lxml(response)
        link == _parse_pdf_url(response.doc.pdf_links)
        date == _parse_date(response.doc.date)
    IN  IF got # None THEN [raises |-> got, value |-> <<>>]
        ELSE IF link.raises # None THEN [raises |-> link.raises, value |-> <<>>]
        ELSE IF link.value = <<>> THEN [raises |-> None, value |-> <<>>]
        ELSE IF date.raises # None THEN [raises |-> date.raises, value |-> <<>>]
        ELSE [raises |-> None,
              value |-> << PDF(_parse_id(link.value[1]), link.value[1],
                               _parse_type(link.value[1]), date.value,
                               basename(link.value[1]), None) >>]

\* Mutant: a record already collected is dropped.
filter_unique(value) ==
    IF value # <<>> /\ \E k \in 1..Len(acc) : acc[k] = value[1] THEN <<>> ELSE value

\* filter(None, ...) applied to one result of the map: a PDF is a non-empty
\* tuple, hence truthy; None is dropped.
filter(value) == value

Front(s) == SubSeq(s, 1, Len(s) - 1)

\* Mutant: x placed before the elements whose key equals its own.
InsertSorted_unstable(t, x) ==
    LET n == Cardinality({ k \in 1..Len(t) : int(t[k].id) < int(x.id) })
    IN  SubSeq(t, 1, n) \o <<x>> \o SubSeq(t, n + 1, Len(t))

\* x placed after every element of the sorted list t whose key is <= its own.
InsertSorted(t, x) ==
    LET n == Cardinality({ k \in 1..Len(t) : int(t[k].id) <= int(x.id) })
    IN  SubSeq(t, 1, n) \o <<x>> \o SubSeq(t, n + 1, Len(t))

RECURSIVE sorted(_)
\* sorted(self.penalty_pdfs, key=lambda pdf: int(pdf.id)): stable.
sorted(s) ==
    IF s = <<>> THEN <<>> ELSE InsertSorted(sorted(Front(s)), s[Len(s)])

\* ------------------------------------------------------------ the session

\* RequestsWrapper.get: the responses a GET of url can return, the one given
\* before when the URL was requested earlier in the run.
get(url) == IF url \in DOMAIN cache THEN {cache[url]} ELSE ServerResponses(url)

\* The responses given so far, url now answered with response.
Cached(url, response) ==
    [u \in DOMAIN cache \cup {url} |-> IF u = url THEN response ELSE cache[u]]

Event(op, what, item, url, status_code) ==
    [op |-> op, what |-> what, item |-> item, url |-> url,
     status_code |-> status_code]

\* parsed after _get_as_lxml handled response, the event being appended.
Parsed(response) ==
    IF _get_as_lxml(response) = None THEN parsed \cup {Len(events) + 1} ELSE parsed

NoError == [type |-> None, in |-> None, item |-> 0]

Raised(type, in, item) == [type |-> type, in |-> in, item |-> item]

\* ------------------------------------------------------------------ run

\* Mutant: metadata.json is written before index.json.
run_metadata_first ==
    << "mkdir_p", "parse_list_page", "parse_pdf_urls_from_penalty_pages",
       "download_pdfs", "write_metadata_json", "write_index_json" >>

\* The statements of run(), in order.
run ==
    << "mkdir_p", "parse_list_page", "parse_pdf_urls_from_penalty_pages",
       "download_pdfs", "write_index_json", "write_metadata_json" >>

\* The statement after `stmt`, or "done" after the last.
Following(stmt) ==
    LET k == CHOOSE k \in 1..Len(run) : run[k] = stmt
    IN  IF k = Len(run) THEN "done" ELSE run[k + 1]

Init ==
    /\ pc = run[1]
    /\ err = NoError
    /\ pdfs_dir \in BOOLEAN
    /\ penalty_pages = <<>>
    /\ penalty_pdfs = <<>>
    /\ i = 1
    /\ acc = <<>>
    /\ files = <<>>
    /\ index_json = <<>>
    /\ cache = <<>>
    /\ events = <<>>
    /\ parsed = {}

mkdir_p ==
    /\ pc = "mkdir_p"
    /\ pdfs_dir' = TRUE
    /\ pc' = Following("mkdir_p")
    /\ UNCHANGED <<err, penalty_pages, penalty_pdfs, i, acc, files,
                   index_json, cache, events, parsed>>

parse_list_page ==
    /\ pc = "parse_list_page"
    /\ \E response \in get(LIST_URL) :
         /\ events' = Append(events, Event("get", "list", 0, LIST_URL, response.status_code))
         /\ cache' = Cached(LIST_URL, response)
         /\ parsed' = Parsed(response)
         /\ IF _get_as_lxml(response) # None
            THEN /\ pc' = "raised"
                 /\ err' = Raised(_get_as_lxml(response), "parse_list_page", 0)
                 /\ UNCHANGED penalty_pages
            ELSE /\ penalty_pages' = response.doc.list_links
                 /\ pc' = Following("parse_list_page")
                 /\ UNCHANGED err
    /\ UNCHANGED <<pdfs_dir, penalty_pdfs, i, acc, files, index_json>>

\* Mutant: a penalty page that answers with an HTTP error is requested again.
parse_pdf_url_from_penalty_page_retry ==
    /\ pc = "parse_pdf_urls_from_penalty_pages"
    /\ i <= Len(penalty_pages)
    /\ \E response \in get(penalty_pages[i]) :
         LET result == ScrapePage(response)
             tried == Cardinality({ k \in 1..Len(events) :
                         events[k].what = "page" /\ events[k].item = i })
         IN  /\ events' = Append(events, Event("get", "page", i, penalty_pages[i],
                                          response.status_code))
             /\ cache' = Cached(penalty_pages[i], response)
             /\ parsed' = Parsed(response)
             /\ IF result.raises = "HTTPError" /\ tried = 0
                THEN UNCHANGED <<pc, err, i, acc>>
                ELSE IF result.raises # None
                THEN /\ pc' = "raised"
                     /\ err' = Raised(result.raises,
                                      "parse_pdf_urls_from_penalty_pages", i)
                     /\ UNCHANGED <<i, acc>>
                ELSE /\ acc' = acc \o filter(result.value)
                     /\ i' = i + 1
                     /\ UNCHANGED <<pc, err>>
    /\ UNCHANGED <<pdfs_dir, penalty_pages, penalty_pdfs, files, index_json>>

\* One application of parse_pdf_url_from_penalty_page by the map.
parse_pdf_url_from_penalty_page ==
    /\ pc = "parse_pdf_urls_from_penalty_pages"
    /\ i <= Len(penalty_pages)
    /\ \E response \in get(penalty_pages[i]) :
         LET result == ScrapePage(response)
         IN  /\ events' = Append(events, Event("get", "page", i, penalty_pages[i],
                                          response.status_code))
             /\ cache' = Cached(penalty_pages[i], response)
             /\ parsed' = Parsed(response)
             /\ IF result.raises # None
                THEN /\ pc' = "raised"
                     /\ err' = Raised(result.raises,
                                      "parse_pdf_urls_from_penalty_pages", i)
                     /\ UNCHANGED <<i, acc>>
                ELSE /\ acc' = acc \o filter(result.value)
                     /\ i' = i + 1
                     /\ UNCHANGED <<pc, err>>
    /\ UNCHANGED <<pdfs_dir, penalty_pages, penalty_pdfs, files, index_json>>

\* list(...) has consumed the map: the assignment to self.penalty_pdfs.
parse_pdf_urls_from_penalty_pages ==
    /\ pc = "parse_pdf_urls_from_penalty_pages"
    /\ i > Len(penalty_pages)
    /\ penalty_pdfs' = acc
    /\ acc' = <<>>
    /\ i' = 1
    /\ pc' = Following("parse_pdf_urls_from_penalty_pages")
    /\ UNCHANGED <<err, pdfs_dir, penalty_pages, files, index_json, cache, events, parsed>>

\* files with `filename` holding `bytes`.
Written(filename, bytes) ==
    [f \in DOMAIN files \cup {filename} |-> IF f = filename THEN bytes ELSE files[f]]

\* One application of download_and_add_sha by the map.  The file is opened
\* (and truncated) before the GET; raise_for_status runs before the write.
download_and_add_sha ==
    /\ pc = "download_pdfs"
    /\ i <= Len(penalty_pdfs)
    /\ pdfs_dir
    /\ LET pdf == penalty_pdfs[i] IN
       \E response \in get(pdf.url) :
         /\ cache' = Cached(pdf.url, response)
         /\ IF raise_for_status(response.status_code)
            THEN /\ files' = Written(pdf.filename, Empty)
                 /\ events' = Append(events,
                        Event("get", "pdf", i, pdf.url, response.status_code))
                 /\ pc' = "raised"
                 /\ err' = Raised("HTTPError", "download_pdfs", i)
                 /\ UNCHANGED <<i, acc>>
            ELSE /\ files' = Written(pdf.filename, response.doc.content)
                 /\ events' = events
                        \o << Event("get", "pdf", i, pdf.url, response.status_code),
                              Event("write", "pdf", i, pdf.url, response.status_code) >>
                 /\ acc' = Append(acc, [pdf EXCEPT !.sha256 = sha256(files'[pdf.filename])])
                 /\ i' = i + 1
                 /\ UNCHANGED <<pc, err>>
    /\ UNCHANGED <<pdfs_dir, penalty_pages, penalty_pdfs, index_json, parsed>>

\* list(...) has consumed the map: the assignment to self.penalty_pdfs.
download_pdfs ==
    /\ pc = "download_pdfs"
    /\ i > Len(penalty_pdfs)
    /\ penalty_pdfs' = acc
    /\ acc' = <<>>
    /\ i' = 1
    /\ pc' = Following("download_pdfs")
    /\ UNCHANGED <<err, pdfs_dir, penalty_pages, files, index_json, cache, events, parsed>>

\* sorted() calls int(pdf.id) on every record before the file is opened:
\* int(None) is a TypeError.
write_index_json ==
    /\ pc = "write_index_json"
    /\ IF \E k \in 1..Len(penalty_pdfs) : penalty_pdfs[k].id = None
       THEN /\ pc' = "raised"
            /\ err' = Raised("TypeError", "write_index_json", 0)
            /\ UNCHANGED <<index_json, events>>
       ELSE /\ index_json' = sorted(penalty_pdfs)
            /\ events' = Append(events, Event("write", "index.json", 0, <<>>, 0))
            /\ pc' = Following("write_index_json")
            /\ UNCHANGED err
    /\ UNCHANGED <<pdfs_dir, penalty_pages, penalty_pdfs, i, acc, files, cache,
                   parsed>>

write_metadata_json ==
    /\ pc = "write_metadata_json"
    /\ events' = Append(events, Event("write", "metadata.json", 0, <<>>, 0))
    /\ pc' = Following("write_metadata_json")
    /\ UNCHANGED <<err, pdfs_dir, penalty_pages, penalty_pdfs, i, acc, files,
                   index_json, cache, parsed>>

Next ==
    \/ mkdir_p
    \/ parse_list_page
    \/ parse_pdf_url_from_penalty_page
    \/ parse_pdf_urls_from_penalty_pages
    \/ download_and_add_sha
    \/ download_pdfs
    \/ write_index_json
    \/ write_metadata_json

Spec == Init /\ [][Next]_vars

\* =============================================================== claims

EventsOf(op, what) ==
    { k \in 1..Len(events) : events[k].op = op /\ events[k].what = what }

GetsFor(what, item) == { k \in EventsOf("get", what) : events[k].item = item }

\* An HTTP error status: 4xx or 5xx.
HttpErrorStatus(status_code) == status_code \in 400..599

InStage(stmt) == pc = stmt \/ (pc = "raised" /\ err.in = stmt)

\* The run has left the statement, normally or by an exception of a later one.
ListPageOver == ~InStage("mkdir_p") /\ ~InStage("parse_list_page")

ScrapeOver == ListPageOver /\ ~InStage("parse_pdf_urls_from_penalty_pages")

DownloadOver == ScrapeOver /\ ~InStage("download_pdfs")

IndexWritten == EventsOf("write", "index.json") # {}

MetadataWritten == EventsOf("write", "metadata.json") # {}

\* The pipeline stage an event belongs to.
Stage(e) ==
    CASE e.what = "list" -> 1
      [] e.what = "page" -> 2
      [] e.what = "pdf" -> 3
      [] e.what = "index.json" -> 4
      [] e.what = "metadata.json" -> 5

HasStage(n) == \E k \in 1..Len(events) : Stage(events[k]) = n

ListPageDone == GetsFor("list", 0) \cap parsed # {}

PagesDone ==
    /\ ListPageDone
    /\ \A j \in 1..Len(penalty_pages) : GetsFor("page", j) \cap parsed # {}
    /\ ~InStage("parse_pdf_urls_from_penalty_pages")

DownloadsDone ==
    /\ PagesDone
    /\ \A k \in 1..Len(penalty_pdfs) :
         /\ \E e \in EventsOf("write", "pdf") : events[e].item = k
         /\ penalty_pdfs[k].sha256 # None
    /\ ~InStage("download_pdfs")

\* C1: the events of a run occur in the order list page, penalty pages, PDF
\* downloads, index.json, metadata.json; a stage has events only when the
\* stage before it has completed for all of its items (no PDF is requested
\* before every penalty page was scraped, index.json is written only after
\* every PDF was downloaded and hashed, metadata.json only after index.json);
\* a run that completes has written both files.
C1_PipelineOrder ==
    /\ \A j, k \in 1..Len(events) : j < k => Stage(events[j]) <= Stage(events[k])
    /\ HasStage(2) => ListPageDone
    /\ HasStage(3) => PagesDone
    /\ HasStage(4) => DownloadsDone
    /\ HasStage(5) => IndexWritten
    /\ pc = "done" => HasStage(1) /\ HasStage(4) /\ HasStage(5)

C1_Witness ==
    /\ pc = "done"
    /\ Len(penalty_pages) = 2
    /\ Len(index_json) = 2

\* C2: when run completes, every entry of index.json has a non-null sha256
\* that equals the SHA-256 of the file pdfs/<filename> as it then exists.
C2_IndexHashesMatchFiles ==
    pc = "done" =>
        \A k \in 1..Len(index_json) :
            /\ index_json[k].sha256 # None
            /\ index_json[k].filename \in DOMAIN files
            /\ index_json[k].sha256 = sha256(files[index_json[k].filename])

\* C2, the part the code keeps: the hash of an entry matches its file when
\* every entry with its filename comes from its URL.
C2_HashesMatchUnlessBasenamesCollide ==
    pc = "done" =>
        \A k \in 1..Len(index_json) :
            (\A m \in 1..Len(index_json) :
                index_json[m].filename = index_json[k].filename
                    => index_json[m].url = index_json[k].url)
            => /\ index_json[k].sha256 # None
               /\ index_json[k].filename \in DOMAIN files
               /\ index_json[k].sha256 = sha256(files[index_json[k].filename])

\* C3: a GET answered with an HTTP error status raises HTTPError at that
\* request: it is the last event of the run, the run has ended in the
\* statement that issued it, and neither index.json nor metadata.json is
\* written.
C3_HttpErrorAborts ==
    \A k \in 1..Len(events) :
        (events[k].op = "get" /\ HttpErrorStatus(events[k].status_code)) =>
            /\ pc = "raised"
            /\ err.type = "HTTPError"
            /\ err.item = events[k].item
            /\ err.in = CASE events[k].what = "list" -> "parse_list_page"
                          [] events[k].what = "page" -> "parse_pdf_urls_from_penalty_pages"
                          [] events[k].what = "pdf" -> "download_pdfs"
            /\ k = Len(events)
            /\ ~IndexWritten /\ ~MetadataWritten
            /\ index_json = <<>>

C3_Witness ==
    /\ pc = "raised"
    /\ err = Raised("HTTPError", "download_pdfs", 2)
    /\ events[Len(events)].status_code = 404

\* C4: no request is repeated: the list page, each occurrence of a penalty
\* page link and each PDF record are requested at most once, and exactly once
\* as soon as the run has left the statement that requests them; a request
\* answered with an HTTP error status is the last request of the run.
C4_NoRetry ==
    /\ \A j, k \in 1..Len(events) :
         ( /\ events[j].op = "get" /\ events[k].op = "get"
           /\ events[j].what = events[k].what
           /\ events[j].item = events[k].item ) => j = k
    /\ ListPageOver =>
         /\ Cardinality(GetsFor("list", 0)) = 1
         /\ \A k \in GetsFor("list", 0) : events[k].url = LIST_URL
    /\ \A k \in EventsOf("get", "page") :
         /\ events[k].item \in 1..Len(penalty_pages)
         /\ events[k].url = penalty_pages[events[k].item]
    /\ ScrapeOver =>
         \A j \in 1..Len(penalty_pages) : Cardinality(GetsFor("page", j)) = 1
    /\ \A k \in EventsOf("get", "pdf") :
         /\ events[k].item \in 1..Len(penalty_pdfs)
         /\ events[k].url = penalty_pdfs[events[k].item].url
    /\ DownloadOver =>
         \A j \in 1..Len(penalty_pdfs) : Cardinality(GetsFor("pdf", j)) = 1
    /\ \A k \in 1..Len(events) :
         (events[k].op = "get" /\ HttpErrorStatus(events[k].status_code)) =>
             \A m \in 1..Len(events) : events[m].op = "get" => m <= k

C4_Witness ==
    /\ pc = "done"
    /\ Len(penalty_pages) = 2
    /\ penalty_pages[1] = penalty_pages[2]
    /\ Len(penalty_pdfs) = 2
    /\ Cardinality(EventsOf("get", "page")) = 2
    /\ Cardinality(EventsOf("get", "pdf")) = 2

\* The number of penalty pages scraped so far without an exception.
Scraped ==
    IF InStage("parse_pdf_urls_from_penalty_pages") THEN i - 1
    ELSE IF ScrapeOver THEN Len(penalty_pages)
    ELSE 0

\* The matching PDF links of the page of the j-th occurrence, as served.
LinksOf(j) == cache[penalty_pages[j]].doc.pdf_links

RECURSIVE OneLink(_)
\* The PDF urls of the pages 1..n that have exactly one matching link.
OneLink(n) ==
    IF n = 0 THEN <<>>
    ELSE IF Len(LinksOf(n)) = 1 THEN Append(OneLink(n - 1), LinksOf(n)[1])
    ELSE OneLink(n - 1)

\* The records collected from the penalty pages so far.
Records == IF InStage("parse_pdf_urls_from_penalty_pages") THEN acc ELSE penalty_pdfs

\* C5: the records collected are, in page order and without de-duplication,
\* one per occurrence whose page has exactly one matching PDF link; a page
\* without a link adds none and does not end the run; index.json of a
\* completed run has as many entries as there are occurrences whose page has
\* exactly one link.
C5_OneRecordPerPage ==
    /\ [k \in 1..Len(Records) |-> Records[k].url] = OneLink(Scraped)
    /\ \A k \in 1..Len(Records) : Records[k].filename = basename(Records[k].url)
    /\ \A k \in EventsOf("get", "page") :
         ( /\ events[k].status_code = 200
           /\ Len(LinksOf(events[k].item)) = 0 )
         => ~(pc = "raised" /\ err.in = "parse_pdf_urls_from_penalty_pages"
                            /\ err.item = events[k].item)
    /\ pc = "done" =>
         Len(index_json) =
            Cardinality({ j \in 1..Len(penalty_pages) : Len(LinksOf(j)) = 1 })

C5_Witness ==
    /\ pc = "done"
    /\ Len(penalty_pages) = 2
    /\ Len(LinksOf(1)) = 0
    /\ Len(LinksOf(2)) = 1
    /\ Len(index_json) = 1

\* C5, a second case: the same link twice on the list page gives two records.
C5_WitnessDuplicate ==
    /\ pc = "done"
    /\ Len(penalty_pages) = 2
    /\ penalty_pages[1] = penalty_pages[2]
    /\ Len(index_json) = 2
    /\ index_json[1] = index_json[2]

\* C6: a penalty page that is fetched and has more than one matching PDF link
\* ends the run with a RuntimeError at that page: its request is the last
\* event, so no later page is fetched, no PDF is requested or written, and
\* neither index.json nor metadata.json is written.
C6_MultipleLinksAbort ==
    \A k \in EventsOf("get", "page") :
        ( /\ events[k].status_code = 200
          /\ Len(LinksOf(events[k].item)) > 1 )
        => /\ pc = "raised"
           /\ err = Raised("RuntimeError", "parse_pdf_urls_from_penalty_pages",
                           events[k].item)
           /\ k = Len(events)
           /\ EventsOf("get", "pdf") = {} /\ EventsOf("write", "pdf") = {}
           /\ files = <<>>
           /\ penalty_pdfs = <<>>
           /\ ~IndexWritten /\ ~MetadataWritten

C6_Witness ==
    /\ pc = "raised"
    /\ err = Raised("RuntimeError", "parse_pdf_urls_from_penalty_pages", 2)
    /\ events[Len(events)].status_code = 200
    /\ Len(LinksOf(2)) > 1
    /\ Len(acc) = 1

Perms(n) == { p \in [1..n -> 1..n] : \A a, b \in 1..n : a # b => p[a] # p[b] }

\* C7: the list written to index.json is a permutation of the records of
\* download_pdfs in non-decreasing order of int(id), and records of equal
\* int(id) keep their relative order.
C7_IndexSortedStable ==
    IndexWritten =>
        LET n == Len(penalty_pdfs) IN
        /\ Len(index_json) = n
        /\ \A k \in 1..(n - 1) : int(index_json[k].id) <= int(index_json[k + 1].id)
        /\ \E p \in Perms(n) :
             /\ \A k \in 1..n : index_json[k] = penalty_pdfs[p[k]]
             /\ \A a, b \in 1..n :
                  (a < b /\ int(index_json[a].id) = int(index_json[b].id))
                      => p[a] < p[b]

C7_Witness ==
    /\ pc = "done"
    /\ Len(penalty_pdfs) = 2
    /\ penalty_pdfs[1].id = "2"
    /\ penalty_pdfs[2].id = "02"
    /\ index_json = penalty_pdfs

\* C7, a second case: the order is by integer value, not by string.
C7_WitnessReordered ==
    /\ pc = "done"
    /\ Len(penalty_pdfs) = 2
    /\ penalty_pdfs[1].id = "10"
    /\ penalty_pdfs[2].id = "2"
    /\ index_json = <<penalty_pdfs[2], penalty_pdfs[1]>>

\* The records that have been through download_and_add_sha.
Downloaded == IF InStage("download_pdfs") THEN acc ELSE penalty_pdfs

\* C8: a list-page or penalty-page response with status 301 ends the run
\* with a RuntimeError at that request and is never parsed; a PDF response
\* with status 301 is written to its file and the record gets the hash of
\* the file, as for status 200.
C8_Redirect301 ==
    /\ \A k \in EventsOf("get", "list") \cup EventsOf("get", "page") :
         events[k].status_code = 301 =>
            /\ pc = "raised"
            /\ err.type = "RuntimeError"
            /\ err.item = events[k].item
            /\ k = Len(events)
            /\ k \notin parsed
    /\ \A k \in EventsOf("get", "pdf") :
         events[k].status_code \in {200, 301} =>
            /\ k < Len(events)
            /\ events[k + 1] = [events[k] EXCEPT !.op = "write"]
            /\ events[k].item \in 1..Len(Downloaded)
            /\ Downloaded[events[k].item].sha256 \in { sha256(c) : c \in Contents }
    /\ (pc = "download_pdfs" /\ i > 1) =>
         /\ acc[i - 1].filename \in DOMAIN files
         /\ files[acc[i - 1].filename] \in Contents
         /\ acc[i - 1].sha256 = sha256(files[acc[i - 1].filename])

C8_Witness ==
    /\ pc = "done"
    /\ \E k \in EventsOf("get", "pdf") : events[k].status_code = 301
    /\ Len(index_json) = 1
    /\ index_json[1].sha256 = sha256(files[index_json[1].filename])

\* C8, the page case: the second penalty page answers 301.
C8_WitnessPage ==
    /\ pc = "raised"
    /\ err = Raised("RuntimeError", "parse_pdf_urls_from_penalty_pages", 2)
    /\ events[Len(events)].status_code = 301

====
